---------------------------- MODULE Spec2Model ----------------------------
(***************************************************************************)
(* A model of src/src/tglobal.cpp (TreeFrog Framework, Tf namespace):      *)
(*                                                                         *)
(*   - the block-chunked LZ4 stream codec  Tf::lz4Compress and             *)
(*     Tf::lz4Uncompress                          (specification SpecCodec),*)
(*   - the mutex-guarded random generators Tf::srandXor128, randXor128,    *)
(*     rand32_r, rand64_r, random(min,max), random(max), run by            *)
(*     pre-emptible threads         (specifications Spec and FairSpec),    *)
(*   - two independent runs of the xorshift generator side by side         *)
(*                                         (specification SpecDet).        *)
(*                                                                         *)
(* Bytes are integers 0..255.  A 32-bit word of the xorshift generator is  *)
(* the set of its 1-bits (a subset of 0..31), so that shifts truncate and  *)
(* XOR is exact at the full width.                                         *)
(***************************************************************************)
EXTENDS Integers, Sequences, FiniteSets, TLC

VARIABLES
    \* ---- lz4Compress(data, nbytes, compressionLevel)
    data,        \* the input bytes
    nbytes,      \* the int nbytes argument (Len(data), or negative)
    level,       \* compressionLevel
    cpc,         \* position in lz4Compress: "off", "start", "loop", "done"
    cReadlen,    \* local readlen
    cBuffer,     \* local buffer
    cRet,        \* local ret (the value returned once cpc = "done")
    blocks,      \* history: datalen of every record appended to ret
    cFailed,     \* history: LZ4_compress_fast returned <= 0 on some block
    \* ---- lz4Uncompress(data, nbytes)
    stream,      \* the input bytes data[0 .. nbytes-1]
    upc,         \* position in lz4Uncompress: "off", "start", "loop", "done"
    uReadlen,    \* local readlen
    uPos,        \* position of srcbuf, the QBuffer under dsin
    uBuffer,     \* local buffer
    uRet,        \* local ret (the value returned once upc = "done")
    prefixes,    \* history: every srclen read by dsin >> srclen
    oob,         \* history: a byte data[i] with i >= nbytes has been read
    roundTrip,   \* TRUE when stream is the result of lz4Compress(data)
    \* ---- the generators and their locks
    x, y, z, w,  \* the xorshift state words
    randMutex,   \* the thread holding randMutex, or Free
    mt,          \* std::mt19937 mt: the number of values drawn from it
    mtmtx,       \* the thread holding mtmtx, or Free
    mt64,        \* std::mt19937_64 mt64: the number of values drawn from it
    mt64mtx,     \* the thread holding mt64mtx, or Free
    \* ---- the threads
    pc,          \* pc[th]: the statement thread th is about to execute
    op,          \* op[th]: the function of Tf thread th was called with
    arg,         \* arg[th]: its arguments seed, min, max
    loc,         \* loc[th]: its locals t (randXor128), ret, and the engine
                 \*   state read by a draw in progress
    calls,       \* the number of calls made so far, over all threads
    \* ---- history
    seq,         \* the xorshift state had every call on it run alone, in
                 \*   the order randMutex was acquired
    snap,        \* the xorshift state when randMutex was last acquired
    acq,         \* acq[th]: what the call of th found when it acquired its
                 \*   lock: its rank among the calls on that lock, the
                 \*   engine's position, the value the call is due
    ranks,       \* per lock, the number of calls that have acquired it
    used,        \* per engine, the draws made by the calls that have
                 \*   released its lock
    \* ---- two runs of the xorshift generator, side by side
    phase,       \* "history", then "seeded" once both runs were given the
                 \*   same seed
    gen,         \* gen[r]: the state words x, y, z, w of run r
    hist,        \* hist[r]: the calls made in run r before the common seed
    start,       \* start[r]: the state of run r right after the common seed
    outs         \* outs[r]: the values randXor128 returned in run r since then

codecVars == << data, nbytes, level, cpc, cReadlen, cBuffer, cRet, blocks,
                cFailed, stream, upc, uReadlen, uPos, uBuffer, uRet,
                prefixes, oob, roundTrip >>

genVars == << x, y, z, w, randMutex, mt, mtmtx, mt64, mt64mtx, pc, op, arg,
              loc, calls, seq, snap, acq, ranks, used >>

detVars == << phase, gen, hist, start, outs >>

vars == << codecVars, genVars, detVars >>

-----------------------------------------------------------------------------
(* Bounds of the model *)

\* LZ4_BLOCKSIZE scaled down from 1024 * 1024 so that single, full, full+1 and
\* multi-block inputs are all enumerable
LZ4_BLOCKSIZE == 2

\* longest input given to lz4Compress
MaxData == 5

\* most records (whole or cut short) in a stream given to lz4Uncompress
MaxRecs == 2

Levels == {1, 9}

\* byte values of the inputs of lz4Compress: 0 and 16 are also LZ4 tokens
DataBytes == {0, 7, 16}

\* byte values found beyond the end of the input of lz4Uncompress
StrayBytes == {0, 7}

Min(a, b) == IF a < b THEN a ELSE b

RECURSIVE SeqsUpTo(_, _)
SeqsUpTo(S, n) ==
    IF n = 0 THEN { <<>> }
    ELSE LET shorter == SeqsUpTo(S, n - 1)
         IN  shorter \cup { Append(s, b) : s \in { q \in shorter : Len(q) = n - 1 }, b \in S }

SeqsOfLen(S, n) == { s \in SeqsUpTo(S, n) : Len(s) = n }

-----------------------------------------------------------------------------
(* The LZ4 block compressor (lz4.h), as the codec uses it *)

\* LZ4_COMPRESSBOUND: 0 for a size that is negative or above
\* LZ4_MAX_INPUT_SIZE (0x7E000000)
LZ4_compressBound(isize) ==
    IF isize < 0 \/ isize > 2113929216 THEN 0
    ELSE isize + (isize \div 255) + 16

\* LZ4_compress_fast on a block shorter than 13 bytes with room for
\* LZ4_compressBound(srclen) bytes, at any acceleration: one sequence of
\* literals, its token holding the literal count in the high nibble
LZ4_compress_fast(src, acceleration) == << 16 * Len(src) >> \o src

\* LZ4_decompress_safe(src, dst, Len(src), dstCapacity): the decoded bytes
\* and the return value.  With dstCapacity below 4 no block holding a match
\* (at least 4 bytes long) fits, so the blocks that decode are those made of
\* one run of literals that ends exactly at the end of the input.
LZ4_decompress_safe(src, dstCapacity) ==
    IF Len(src) = 0 THEN [rv |-> -1, out |-> <<>>]
    ELSE LET length == src[1] \div 16
         IN  IF length < 15 /\ Len(src) = 1 + length /\ length <= dstCapacity
             THEN [rv |-> length, out |-> SubSeq(src, 2, 1 + length)]
             ELSE [rv |-> -1, out |-> <<>>]

-----------------------------------------------------------------------------
(* QDataStream in QDataStream::LittleEndian byte order *)

\* dsout << (int)v, for v >= 0
WriteInt32BigEndian(v) ==
    << (v \div 16777216) % 256, (v \div 65536) % 256, (v \div 256) % 256, v % 256 >>

WriteInt32(v) ==
    << v % 256, (v \div 256) % 256, (v \div 65536) % 256, (v \div 16777216) % 256 >>

\* the int held by four bytes, the last one carrying the sign
Int32Of(b) ==
    b[1] + 256 * b[2] + 65536 * b[3]
      + 16777216 * (IF b[4] >= 128 THEN b[4] - 256 ELSE b[4])

\* dsin >> srclen with the device at position pos of buf: the value read and
\* the new position.  A read of fewer than 4 bytes leaves 0 in srclen and
\* the device at its end; the device never hands out a byte beyond Len(buf).
ReadInt32(buf, pos) ==
    IF pos + 4 <= Len(buf)
    THEN [val |-> Int32Of(SubSeq(buf, pos + 1, pos + 4)), pos |-> pos + 4]
    ELSE [val |-> 0, pos |-> Len(buf)]

\* dsin.skipRawData(len)
SkipRawData(buf, pos, len) == Min(pos + len, Len(buf))

-----------------------------------------------------------------------------
(* Tf::lz4Compress *)

\* int datalen = qMin(nbytes - readlen, LZ4_BLOCKSIZE)
DatalenOffByOne(n, readlen) == Min(n - readlen, LZ4_BLOCKSIZE + 1)

Datalen(n, readlen) == Min(n - readlen, LZ4_BLOCKSIZE)

\* ret.clear() of the branch taken when buffer.isEmpty()
CompressAbortKeep(ret) == ret

CompressAbort(ret) == << >>

\* rsvsize = LZ4_compressBound(nbytes); if (rsvsize < 1) return ret;
CompressCall ==
    /\ cpc = "start"
    /\ cRet' = << >>
    /\ cBuffer' = << >>
    /\ cReadlen' = 0
    /\ cpc' = IF LZ4_compressBound(nbytes) < 1 THEN "done" ELSE "loop"
    /\ UNCHANGED << data, nbytes, level, blocks, cFailed, stream, upc,
                    uReadlen, uPos, uBuffer, uRet, prefixes, oob, roundTrip, genVars, detVars >>

\* one pass of the while loop in which LZ4_compress_fast returns rv > 0
CompressBlock ==
    /\ cpc = "loop"
    /\ cReadlen < nbytes
    /\ LET datalen == Datalen(nbytes, cReadlen)
           src     == SubSeq(data, cReadlen + 1, cReadlen + datalen)
           buf     == IF datalen > 0 THEN LZ4_compress_fast(src, level) ELSE << >>
       IN  /\ cBuffer' = buf
           /\ cReadlen' = cReadlen + datalen
           /\ IF buf = << >>
              THEN /\ cRet' = CompressAbort(cRet)
                   /\ cpc' = "done"
                   /\ blocks' = blocks
              ELSE /\ cRet' = cRet \o WriteInt32(Len(buf)) \o buf
                   /\ cpc' = "loop"
                   /\ blocks' = Append(blocks, datalen)
    /\ UNCHANGED << data, nbytes, level, cFailed, stream, upc, uReadlen,
                    uPos, uBuffer, uRet, prefixes, oob, roundTrip, genVars, detVars >>

\* one pass of the while loop in which LZ4_compress_fast returns rv <= 0:
\* buffer.clear(), then ret.clear() and break
CompressBlockFails ==
    /\ cpc = "loop"
    /\ cReadlen < nbytes
    /\ LET datalen == Datalen(nbytes, cReadlen)
       IN  /\ datalen > 0
           /\ cBuffer' = << >>
           /\ cReadlen' = cReadlen + datalen
    /\ cRet' = CompressAbort(cRet)
    /\ cFailed' = TRUE
    /\ cpc' = "done"
    /\ UNCHANGED << data, nbytes, level, blocks, stream, upc, uReadlen,
                    uPos, uBuffer, uRet, prefixes, oob, roundTrip, genVars, detVars >>

\* the loop condition readlen < nbytes fails: return ret
CompressReturn ==
    /\ cpc = "loop"
    /\ ~ (cReadlen < nbytes)
    /\ cpc' = "done"
    /\ UNCHANGED << data, nbytes, level, cReadlen, cBuffer, cRet, blocks,
                    cFailed, stream, upc, uReadlen, uPos, uBuffer, uRet,
                    prefixes, oob, roundTrip, genVars, detVars >>

-----------------------------------------------------------------------------
(* Tf::lz4Uncompress *)

\* const int CompressBoundSize = LZ4_compressBound(LZ4_BLOCKSIZE)
CompressBoundSize == LZ4_compressBound(LZ4_BLOCKSIZE)

\* if (srclen <= 0 || srclen > CompressBoundSize)
FormatError(srclen) == srclen <= 0 \/ srclen > CompressBoundSize

\* ret.clear() of the format-error branch
FormatAbortKeep(ret) == ret

FormatAbort(ret) == << >>

\* ret.clear() of the branch taken when LZ4_decompress_safe returns rv <= 0
DecodeAbort(ret) == << >>

\* lz4Uncompress(const QByteArray &data) called on the result of lz4Compress
UncompressResult ==
    /\ cpc = "done"
    /\ upc = "off"
    /\ roundTrip
    /\ stream' = cRet
    /\ upc' = "start"
    /\ UNCHANGED << data, nbytes, level, cpc, cReadlen, cBuffer, cRet, blocks,
                    cFailed, uReadlen, uPos, uBuffer, uRet, prefixes, oob,
                    roundTrip, genVars, detVars >>

\* the declarations before the loop
UncompressCall ==
    /\ upc = "start"
    /\ uRet' = << >>
    /\ uBuffer' = << >>
    /\ uReadlen' = 0
    /\ uPos' = 0
    /\ upc' = "loop"
    /\ UNCHANGED << data, nbytes, level, cpc, cReadlen, cBuffer, cRet, blocks,
                    cFailed, stream, prefixes, oob, roundTrip, genVars, detVars >>

\* a pass of the loop that reads a length failing the validation
UncompressFormatError ==
    /\ upc = "loop"
    /\ uReadlen < Len(stream)
    /\ LET rd == ReadInt32(stream, uPos)
       IN  /\ FormatError(rd.val)
           /\ uPos' = rd.pos
           /\ prefixes' = Append(prefixes, rd.val)
    /\ uReadlen' = uReadlen + 4
    /\ uRet' = FormatAbort(uRet)
    /\ upc' = "done"
    /\ UNCHANGED << data, nbytes, level, cpc, cReadlen, cBuffer, cRet, blocks,
                    cFailed, stream, uBuffer, oob, roundTrip, genVars, detVars >>

\* a pass of the loop that reads a valid length and hands
\* data + readlen .. data + readlen + srclen - 1 to LZ4_decompress_safe.
\* The bytes of that range at or beyond nbytes are not part of the input:
\* whatever lies in memory there is read (stray).
UncompressBlock ==
    /\ upc = "loop"
    /\ uReadlen < Len(stream)
    /\ LET rd      == ReadInt32(stream, uPos)
           srclen  == rd.val
           from    == uReadlen + 4
           inside  == SubSeq(stream, from + 1, Min(from + srclen, Len(stream)))
           missing == srclen - Len(inside)
       IN  /\ ~ FormatError(srclen)
           /\ prefixes' = Append(prefixes, srclen)
           /\ \E stray \in SeqsOfLen(StrayBytes, Min(missing, LZ4_BLOCKSIZE + 1)) :
                LET src == inside \o stray \o [i \in 1 .. (missing - Len(stray)) |-> 0]
                    dec == LZ4_decompress_safe(src, LZ4_BLOCKSIZE)
                IN  /\ uPos' = SkipRawData(stream, rd.pos, srclen)
                    /\ uReadlen' = from + srclen
                    /\ oob' = (oob \/ missing > 0)
                    /\ IF dec.rv > 0
                       THEN /\ uBuffer' = dec.out
                            /\ uRet' = uRet \o dec.out
                            /\ upc' = "loop"
                       ELSE /\ uBuffer' = uBuffer
                            /\ uRet' = DecodeAbort(uRet)
                            /\ upc' = "done"
    /\ UNCHANGED << data, nbytes, level, cpc, cReadlen, cBuffer, cRet, blocks,
                    cFailed, stream, roundTrip, genVars, detVars >>

\* the loop condition readlen < nbytes fails: return ret
UncompressReturn ==
    /\ upc = "loop"
    /\ ~ (uReadlen < Len(stream))
    /\ upc' = "done"
    /\ UNCHANGED << data, nbytes, level, cpc, cReadlen, cBuffer, cRet, blocks,
                    cFailed, stream, uReadlen, uPos, uBuffer, uRet, prefixes,
                    oob, roundTrip, genVars, detVars >>

-----------------------------------------------------------------------------
(* 32-bit words (quint32) as the sets of their 1-bits *)

\* the word of a number below 2^31
WordOf(n) == { i \in 0 .. 30 : (n \div (2 ^ i)) % 2 = 1 }

\* a ^ b
Xor(a, b) == (a \ b) \cup (b \ a)

\* a << k and a >> k on quint32: the bits shifted out are lost
Shl(a, k) == { i + k : i \in { j \in a : j + k <= 31 } }

Shr(a, k) == { i - k : i \in { j \in a : j >= k } }

\* a rotated left by k
Rotl(a, k) == { (i + k) % 32 : i \in a }

-----------------------------------------------------------------------------
(* Bounds and inputs of the generator model *)

\* calls made over all threads
MaxCalls == 3

\* most engine invocations of one uniform_int_distribution draw
MaxDraws == 2

\* two threads call the generators
Threads == { "t1", "t2" }

Free == "free"

\* seeds given to srandXor128: 1 and 0x88000208
Seeds == { WordOf(1), {3, 9, 27, 31} }

\* (min, max) given to random(min, max), and max given to random(max)
Ranges == { << 5, 6 >>, << 6, 5 >> }

Maxes == { 6 }

\* what a uniform_int_distribution built on (min, max) can return: a value
\* of min .. max; with min > max its precondition is broken and the value is
\* unspecified
UniformValues(min, max) == IF min <= max THEN min .. max ELSE { 0, 7 }

NoArg == [seed |-> {}, min |-> 0, max |-> 0]

NoLoc == [t |-> {}, ret |-> {}, eng |-> 0, draws |-> 0]

NoAcq == [rank |-> 0, from |-> 0, due |-> {}]

-----------------------------------------------------------------------------
(* The xorshift generator, one call at a time *)

\* z = w ^ (w >> 8) ^ (w << 5)
SeedZRotl(v) == Xor(Xor(v, Shr(v, 8)), Rotl(v, 5))

SeedZ(v) == Xor(Xor(v, Shr(v, 8)), Shl(v, 5))

\* the whole of srandXor128(seed) on the state g
SrandKeepsZ(g, seed) == [g EXCEPT !.w = seed]

SrandXor128(g, seed) == [g EXCEPT !.w = seed, !.z = SeedZ(seed)]

\* the whole of randXor128() on the state g; the value returned is the new w
RandXor128(g) ==
    LET t == Xor(g.x, Shl(g.x, 11))
    IN  [x |-> g.y, y |-> g.z, z |-> g.w,
         w |-> Xor(Xor(g.w, Shr(g.w, 19)), Xor(t, Shr(t, 8)))]

\* quint32 x = 123456789, y = 362436069, z = 987654321, w = 1
XorInit ==
    [x |-> WordOf(123456789), y |-> WordOf(362436069),
     z |-> WordOf(987654321), w |-> WordOf(1)]

-----------------------------------------------------------------------------
(* The calls of a thread *)

GenFrame == UNCHANGED << codecVars, detVars >>

Begin(th, f, a, first) ==
    /\ calls < MaxCalls
    /\ calls' = calls + 1
    /\ op' = [op EXCEPT ![th] = f]
    /\ arg' = [arg EXCEPT ![th] = a]
    /\ loc' = [loc EXCEPT ![th] = NoLoc]
    /\ acq' = [acq EXCEPT ![th] = NoAcq]
    /\ pc' = [pc EXCEPT ![th] = first]
    /\ UNCHANGED << x, y, z, w, randMutex, mt, mtmtx, mt64, mt64mtx, seq,
                    snap, ranks, used >>
    /\ GenFrame

CallSrandXor128(th) ==
    /\ pc[th] = "idle"
    /\ \E seed \in Seeds :
          Begin(th, "srandXor128", [NoArg EXCEPT !.seed = seed], "srand_lock")

CallRandXor128(th) ==
    /\ pc[th] = "idle"
    /\ Begin(th, "randXor128", NoArg, "rand_lock")

CallRand32_r(th) ==
    /\ pc[th] = "idle"
    /\ Begin(th, "rand32_r", NoArg, "r32_lock")

CallRand64_r(th) ==
    /\ pc[th] = "idle"
    /\ Begin(th, "rand64_r", NoArg, "r64_lock")

CallRandom(th) ==
    /\ pc[th] = "idle"
    /\ \E r \in Ranges :
          Begin(th, "random", [NoArg EXCEPT !.min = r[1], !.max = r[2]], "rnd_dist")

CallRandomMax(th) ==
    /\ pc[th] = "idle"
    /\ \E max \in Maxes :
          Begin(th, "randomMax", [NoArg EXCEPT !.max = max], "rndmax_call")

\* thread th moves from statement at to statement to
Goto(th, at, to) ==
    /\ pc[th] = at
    /\ pc' = [pc EXCEPT ![th] = to]

\* thread th returns from statement at: its arguments and locals are gone
Return(th, at) ==
    /\ pc[th] = at
    /\ pc' = [pc EXCEPT ![th] = "idle"]
    /\ op' = [op EXCEPT ![th] = "none"]
    /\ arg' = [arg EXCEPT ![th] = NoArg]
    /\ loc' = [loc EXCEPT ![th] = NoLoc]
    /\ acq' = [acq EXCEPT ![th] = NoAcq]

-----------------------------------------------------------------------------
(* void Tf::srandXor128(quint32 seed) *)

\* randMutex.lock()
SrandLock(th) ==
    /\ Goto(th, "srand_lock", "srand_w")
    /\ randMutex = Free
    /\ randMutex' = th
    /\ seq' = SrandXor128(seq, arg[th].seed)
    /\ snap' = [x |-> x, y |-> y, z |-> z, w |-> w]
    /\ ranks' = [ranks EXCEPT !.xor = @ + 1]
    /\ UNCHANGED << x, y, z, w, mt, mtmtx, mt64, mt64mtx, op, arg, loc, calls,
                    acq, used >>
    /\ GenFrame

\* w = seed
SrandW(th) ==
    /\ Goto(th, "srand_w", "srand_z")
    /\ w' = arg[th].seed
    /\ UNCHANGED << x, y, z, randMutex, mt, mtmtx, mt64, mt64mtx, op, arg, loc,
                    calls, seq, snap, acq, ranks, used >>
    /\ GenFrame

\* z = w ^ (w >> 8) ^ (w << 5)
SrandZ(th) ==
    /\ Goto(th, "srand_z", "srand_unlock")
    /\ z' = SeedZ(w)
    /\ UNCHANGED << x, y, w, randMutex, mt, mtmtx, mt64, mt64mtx, op, arg, loc,
                    calls, seq, snap, acq, ranks, used >>
    /\ GenFrame

\* a return that leaves randMutex locked
SrandReturnLocked(th) ==
    /\ Return(th, "srand_unlock")
    /\ UNCHANGED << x, y, z, w, randMutex, mt, mtmtx, mt64, mt64mtx, calls,
                    seq, snap, ranks, used >>
    /\ GenFrame

\* randMutex.unlock()
SrandUnlock(th) ==
    /\ Return(th, "srand_unlock")
    /\ randMutex' = Free
    /\ UNCHANGED << x, y, z, w, mt, mtmtx, mt64, mt64mtx, calls, seq, snap,
                    ranks, used >>
    /\ GenFrame

-----------------------------------------------------------------------------
(* quint32 Tf::randXor128() *)

\* a locker that does not wait for randMutex
RandLockNoWait(th) ==
    /\ Goto(th, "rand_lock", "rand_t")
    /\ randMutex' = th
    /\ seq' = RandXor128(seq)
    /\ snap' = [x |-> x, y |-> y, z |-> z, w |-> w]
    /\ acq' = [acq EXCEPT ![th] = [NoAcq EXCEPT !.rank = ranks.xor + 1,
                                                !.due = RandXor128(seq).w]]
    /\ ranks' = [ranks EXCEPT !.xor = @ + 1]
    /\ UNCHANGED << x, y, z, w, mt, mtmtx, mt64, mt64mtx, op, arg, loc, calls,
                    used >>
    /\ GenFrame

\* QMutexLocker lock(&randMutex)
RandLock(th) ==
    /\ Goto(th, "rand_lock", "rand_t")
    /\ randMutex = Free
    /\ randMutex' = th
    /\ seq' = RandXor128(seq)
    /\ snap' = [x |-> x, y |-> y, z |-> z, w |-> w]
    /\ acq' = [acq EXCEPT ![th] = [NoAcq EXCEPT !.rank = ranks.xor + 1,
                                                !.due = RandXor128(seq).w]]
    /\ ranks' = [ranks EXCEPT !.xor = @ + 1]
    /\ UNCHANGED << x, y, z, w, mt, mtmtx, mt64, mt64mtx, op, arg, loc, calls,
                    used >>
    /\ GenFrame

\* t = x ^ (x << 11)
RandT(th) ==
    /\ Goto(th, "rand_t", "rand_x")
    /\ loc' = [loc EXCEPT ![th].t = Xor(x, Shl(x, 11))]
    /\ UNCHANGED << x, y, z, w, randMutex, mt, mtmtx, mt64, mt64mtx, op, arg,
                    calls, seq, snap, acq, ranks, used >>
    /\ GenFrame

\* x = y
RandX(th) ==
    /\ Goto(th, "rand_x", "rand_y")
    /\ x' = y
    /\ UNCHANGED << y, z, w, randMutex, mt, mtmtx, mt64, mt64mtx, op, arg, loc,
                    calls, seq, snap, acq, ranks, used >>
    /\ GenFrame

\* y = z
RandY(th) ==
    /\ Goto(th, "rand_y", "rand_z")
    /\ y' = z
    /\ UNCHANGED << x, z, w, randMutex, mt, mtmtx, mt64, mt64mtx, op, arg, loc,
                    calls, seq, snap, acq, ranks, used >>
    /\ GenFrame

\* z = w
RandZ(th) ==
    /\ Goto(th, "rand_z", "rand_w")
    /\ z' = w
    /\ UNCHANGED << x, y, w, randMutex, mt, mtmtx, mt64, mt64mtx, op, arg, loc,
                    calls, seq, snap, acq, ranks, used >>
    /\ GenFrame

\* w = w ^ (w >> 19) ^ (t ^ (t >> 8))
RandW(th) ==
    /\ Goto(th, "rand_w", "rand_ret")
    /\ w' = Xor(Xor(w, Shr(w, 19)), Xor(loc[th].t, Shr(loc[th].t, 8)))
    /\ UNCHANGED << x, y, z, randMutex, mt, mtmtx, mt64, mt64mtx, op, arg, loc,
                    calls, seq, snap, acq, ranks, used >>
    /\ GenFrame

\* return w: the value returned is read while the locker still holds
RandReturn(th) ==
    /\ Goto(th, "rand_ret", "rand_unlock")
    /\ loc' = [loc EXCEPT ![th].ret = w]
    /\ UNCHANGED << x, y, z, w, randMutex, mt, mtmtx, mt64, mt64mtx, op, arg,
                    calls, seq, snap, acq, ranks, used >>
    /\ GenFrame

\* ~QMutexLocker
RandUnlock(th) ==
    /\ Return(th, "rand_unlock")
    /\ randMutex' = Free
    /\ UNCHANGED << x, y, z, w, mt, mtmtx, mt64, mt64mtx, calls, seq, snap,
                    ranks, used >>
    /\ GenFrame

-----------------------------------------------------------------------------
(* uint32_t Tf::rand32_r() *)

\* mtmtx.lock()
Rand32Lock(th) ==
    /\ Goto(th, "r32_lock", "r32_read")
    /\ mtmtx = Free
    /\ mtmtx' = th
    /\ acq' = [acq EXCEPT ![th] = [NoAcq EXCEPT !.rank = ranks.mt + 1, !.from = mt]]
    /\ ranks' = [ranks EXCEPT !.mt = @ + 1]
    /\ UNCHANGED << x, y, z, w, randMutex, mt, mt64, mt64mtx, op, arg, loc,
                    calls, seq, snap, used >>
    /\ GenFrame

\* uint32_t ret = mt(): the engine reads its state ...
Rand32Read(th) ==
    /\ Goto(th, "r32_read", "r32_write")
    /\ loc' = [loc EXCEPT ![th].eng = mt]
    /\ UNCHANGED << x, y, z, w, randMutex, mt, mtmtx, mt64, mt64mtx, op, arg,
                    calls, seq, snap, acq, ranks, used >>
    /\ GenFrame

\* ... and stores the state one step on, returning the value of that step
Rand32Write(th) ==
    /\ Goto(th, "r32_write", "r32_unlock")
    /\ mt' = loc[th].eng + 1
    /\ loc' = [loc EXCEPT ![th].ret = loc[th].eng + 1, ![th].draws = @ + 1]
    /\ UNCHANGED << x, y, z, w, randMutex, mtmtx, mt64, mt64mtx, op, arg,
                    calls, seq, snap, acq, ranks, used >>
    /\ GenFrame

\* mtmtx.unlock(); return ret
Rand32Unlock(th) ==
    /\ Return(th, "r32_unlock")
    /\ mtmtx' = Free
    /\ used' = [used EXCEPT !.mt = @ + loc[th].draws]
    /\ UNCHANGED << x, y, z, w, randMutex, mt, mt64, mt64mtx, calls, seq,
                    snap, ranks >>
    /\ GenFrame

-----------------------------------------------------------------------------
(* uint64_t Tf::rand64_r() *)

\* mt64mtx.lock()
Rand64Lock(th) ==
    /\ Goto(th, "r64_lock", "r64_read")
    /\ mt64mtx = Free
    /\ mt64mtx' = th
    /\ acq' = [acq EXCEPT ![th] = [NoAcq EXCEPT !.rank = ranks.mt64 + 1, !.from = mt64]]
    /\ ranks' = [ranks EXCEPT !.mt64 = @ + 1]
    /\ UNCHANGED << x, y, z, w, randMutex, mt, mtmtx, mt64, op, arg, loc,
                    calls, seq, snap, used >>
    /\ GenFrame

\* uint64_t ret = mt64(): the engine reads its state ...
Rand64Read(th) ==
    /\ Goto(th, "r64_read", "r64_write")
    /\ loc' = [loc EXCEPT ![th].eng = mt64]
    /\ UNCHANGED << x, y, z, w, randMutex, mt, mtmtx, mt64, mt64mtx, op, arg,
                    calls, seq, snap, acq, ranks, used >>
    /\ GenFrame

\* ... and stores the state one step on, returning the value of that step
Rand64Write(th) ==
    /\ Goto(th, "r64_write", "r64_unlock")
    /\ mt64' = loc[th].eng + 1
    /\ loc' = [loc EXCEPT ![th].ret = loc[th].eng + 1, ![th].draws = @ + 1]
    /\ UNCHANGED << x, y, z, w, randMutex, mt, mtmtx, mt64mtx, op, arg,
                    calls, seq, snap, acq, ranks, used >>
    /\ GenFrame

\* mt64mtx.unlock(); return ret
Rand64Unlock(th) ==
    /\ Return(th, "r64_unlock")
    /\ mt64mtx' = Free
    /\ used' = [used EXCEPT !.mt64 = @ + loc[th].draws]
    /\ UNCHANGED << x, y, z, w, randMutex, mt, mtmtx, mt64, calls, seq,
                    snap, ranks >>
    /\ GenFrame

-----------------------------------------------------------------------------
(* uint64_t Tf::random(uint64_t min, uint64_t max) and random(uint64_t max) *)

\* return random(0, max)
RandomMaxCall(th) ==
    /\ Goto(th, "rndmax_call", "rnd_dist")
    /\ arg' = [arg EXCEPT ![th].min = 0]
    /\ UNCHANGED << x, y, z, w, randMutex, mt, mtmtx, mt64, mt64mtx, op, loc,
                    calls, seq, snap, acq, ranks, used >>
    /\ GenFrame

\* std::uniform_int_distribution<uint64_t> uniform(min, max): built from any
\* min and max, no comparison of the two is made
RandomDist(th) ==
    /\ Goto(th, "rnd_dist", "rnd_lock")
    /\ UNCHANGED << x, y, z, w, randMutex, mt, mtmtx, mt64, mt64mtx, op, arg,
                    loc, calls, seq, snap, acq, ranks, used >>
    /\ GenFrame

\* mt64mtx.lock()
RandomLock(th) ==
    /\ Goto(th, "rnd_lock", "rnd_read")
    /\ mt64mtx = Free
    /\ mt64mtx' = th
    /\ acq' = [acq EXCEPT ![th] = [NoAcq EXCEPT !.rank = ranks.mt64 + 1, !.from = mt64]]
    /\ ranks' = [ranks EXCEPT !.mt64 = @ + 1]
    /\ UNCHANGED << x, y, z, w, randMutex, mt, mtmtx, mt64, op, arg, loc,
                    calls, seq, snap, used >>
    /\ GenFrame

\* uint64_t ret = uniform(mt64): the distribution invokes the engine, which
\* reads its state ...
RandomRead(th) ==
    /\ Goto(th, "rnd_read", "rnd_write")
    /\ loc' = [loc EXCEPT ![th].eng = mt64]
    /\ UNCHANGED << x, y, z, w, randMutex, mt, mtmtx, mt64, mt64mtx, op, arg,
                    calls, seq, snap, acq, ranks, used >>
    /\ GenFrame

\* ... and stores the state one step on
RandomWrite(th) ==
    /\ Goto(th, "rnd_write", "rnd_scale")
    /\ mt64' = loc[th].eng + 1
    /\ loc' = [loc EXCEPT ![th].draws = @ + 1]
    /\ UNCHANGED << x, y, z, w, randMutex, mt, mtmtx, mt64mtx, op, arg,
                    calls, seq, snap, acq, ranks, used >>
    /\ GenFrame

\* the distribution rejects the value drawn and invokes the engine again
RandomRedraw(th) ==
    /\ Goto(th, "rnd_scale", "rnd_read")
    /\ loc[th].draws < MaxDraws
    /\ UNCHANGED << x, y, z, w, randMutex, mt, mtmtx, mt64, mt64mtx, op, arg,
                    loc, calls, seq, snap, acq, ranks, used >>
    /\ GenFrame

\* the distribution scales the value drawn into the result
RandomScale(th) ==
    /\ Goto(th, "rnd_scale", "rnd_unlock")
    /\ \E v \in UniformValues(arg[th].min, arg[th].max) :
           loc' = [loc EXCEPT ![th].ret = v]
    /\ UNCHANGED << x, y, z, w, randMutex, mt, mtmtx, mt64, mt64mtx, op, arg,
                    calls, seq, snap, acq, ranks, used >>
    /\ GenFrame

\* mt64mtx.unlock(); return ret
RandomUnlock(th) ==
    /\ Return(th, "rnd_unlock")
    /\ mt64mtx' = Free
    /\ used' = [used EXCEPT !.mt64 = @ + loc[th].draws]
    /\ UNCHANGED << x, y, z, w, randMutex, mt, mtmtx, mt64, calls, seq,
                    snap, ranks >>
    /\ GenFrame

-----------------------------------------------------------------------------
(* The generators run by threads *)

GenIdle ==
    /\ x = XorInit.x /\ y = XorInit.y /\ z = XorInit.z /\ w = XorInit.w
    /\ randMutex = Free /\ mtmtx = Free /\ mt64mtx = Free
    /\ mt = 0 /\ mt64 = 0
    /\ pc = [th \in Threads |-> "idle"]
    /\ op = [th \in Threads |-> "none"]
    /\ arg = [th \in Threads |-> NoArg]
    /\ loc = [th \in Threads |-> NoLoc]
    /\ acq = [th \in Threads |-> NoAcq]
    /\ calls = 0
    /\ seq = XorInit
    /\ snap = XorInit
    /\ ranks = [xor |-> 0, mt |-> 0, mt64 |-> 0]
    /\ used = [mt |-> 0, mt64 |-> 0]

\* a statement of thread th that takes a lock
Acquire(th) ==
    \/ SrandLock(th) \/ RandLock(th) \/ Rand32Lock(th) \/ Rand64Lock(th)
    \/ RandomLock(th)

\* any other statement of a call of thread th
Proceed(th) ==
    \/ SrandW(th) \/ SrandZ(th) \/ SrandUnlock(th)
    \/ RandT(th) \/ RandX(th) \/ RandY(th) \/ RandZ(th) \/ RandW(th)
    \/ RandReturn(th) \/ RandUnlock(th)
    \/ Rand32Read(th) \/ Rand32Write(th) \/ Rand32Unlock(th)
    \/ Rand64Read(th) \/ Rand64Write(th) \/ Rand64Unlock(th)
    \/ RandomMaxCall(th) \/ RandomDist(th) \/ RandomRead(th)
    \/ RandomWrite(th) \/ RandomRedraw(th) \/ RandomScale(th)
    \/ RandomUnlock(th)

-----------------------------------------------------------------------------
(* Two runs of the xorshift generator, each a process of its own.  The      *)
(* calls of a run follow one another: randMutex lets no two overlap.        *)

\* calls made in a run before the common seed
MaxHist == 2

\* values drawn in a run after the common seed
MaxOut == 3

Runs == { 1, 2 }

DetFrame == UNCHANGED << codecVars, genVars >>

\* run r calls srandXor128(seed)
HistorySrand(r) ==
    /\ phase = "history"
    /\ Len(hist[r]) < MaxHist
    /\ \E seed \in Seeds :
          /\ gen' = [gen EXCEPT ![r] = SrandXor128(@, seed)]
          /\ hist' = [hist EXCEPT ![r] = Append(@, << "srandXor128", seed >>)]
    /\ UNCHANGED << phase, start, outs >>
    /\ DetFrame

\* run r calls randXor128()
HistoryRand(r) ==
    /\ phase = "history"
    /\ Len(hist[r]) < MaxHist
    /\ gen' = [gen EXCEPT ![r] = RandXor128(@)]
    /\ hist' = [hist EXCEPT ![r] = Append(@, << "randXor128" >>)]
    /\ UNCHANGED << phase, start, outs >>
    /\ DetFrame

\* both runs call srandXor128(seed) with the same seed
CommonSeed ==
    /\ phase = "history"
    /\ \E seed \in Seeds :
          /\ gen' = [r \in Runs |-> SrandXor128(gen[r], seed)]
          /\ start' = [r \in Runs |-> SrandXor128(gen[r], seed)]
    /\ phase' = "seeded"
    /\ UNCHANGED << hist, outs >>
    /\ DetFrame

\* both runs call randXor128()
BothRand ==
    /\ phase = "seeded"
    /\ Len(outs[1]) < MaxOut
    /\ gen' = [r \in Runs |-> RandXor128(gen[r])]
    /\ outs' = [r \in Runs |-> Append(outs[r], RandXor128(gen[r]).w)]
    /\ UNCHANGED << phase, start, hist >>
    /\ DetFrame

DetIdle ==
    /\ gen = [r \in Runs |-> XorInit]
    /\ start = [r \in Runs |-> XorInit]
    /\ hist = [r \in Runs |-> << >>]
    /\ outs = [r \in Runs |-> << >>]

-----------------------------------------------------------------------------
(* The inputs of the codec *)

\* one record of the wire format: uint32 little-endian length, then payload
RecordOf(payload) ==
    << Len(payload) % 256, (Len(payload) \div 256) % 256,
       (Len(payload) \div 65536) % 256, (Len(payload) \div 16777216) % 256 >>
      \o payload

\* length prefixes met in streams: zero, negative, the lengths of the blocks
\* that decode, and the first length above CompressBoundSize
PrefixWords ==
    { WriteInt32(n) : n \in (0 .. LZ4_BLOCKSIZE + 2) \cup {CompressBoundSize + 1} }
      \cup { << 255, 255, 255, 255 >>, << 0, 0, 0, 128 >> }

\* payloads: LZ4 blocks of 0 .. LZ4_BLOCKSIZE + 1 literals, whole or cut short
Payloads ==
    UNION { { SubSeq(LZ4_compress_fast([i \in 1 .. n |-> 7], 1), 1, k) : k \in 0 .. n + 1 } :
              n \in 0 .. LZ4_BLOCKSIZE + 1 }

\* what a stream may end with: nothing, a prefix cut short, or a prefix
\* followed by a payload, whether or not the two agree
Tails == { << >>, << 2, 0 >> } \cup { p \o q : p \in PrefixWords, q \in Payloads }

\* the records that decode: a block of 1 .. LZ4_BLOCKSIZE literals under its
\* length
GoodRecords ==
    { RecordOf(LZ4_compress_fast(lits, 1)) :
          lits \in SeqsUpTo(StrayBytes, LZ4_BLOCKSIZE) \ { << >> } }

\* streams of up to n records: records that decode, then any tail (decoding
\* goes on only past a record that decodes)
RECURSIVE StreamsOf(_)
StreamsOf(n) ==
    IF n <= 1 THEN Tails
    ELSE Tails \cup { r \o s : r \in GoodRecords, s \in StreamsOf(n - 1) }

CodecIdle ==
    /\ cReadlen = 0 /\ cBuffer = << >> /\ cRet = << >> /\ blocks = << >>
    /\ cFailed = FALSE
    /\ uReadlen = 0 /\ uPos = 0 /\ uBuffer = << >> /\ uRet = << >>
    /\ prefixes = << >> /\ oob = FALSE

\* lz4Compress on any input, its result then given to lz4Uncompress; or
\* lz4Uncompress on any stream
CodecInit ==
    /\ CodecIdle
    /\ \/ /\ roundTrip = TRUE
          /\ data \in SeqsUpTo(DataBytes, MaxData)
          /\ nbytes \in {Len(data)} \cup (IF data = << >> THEN {-1} ELSE {})
          /\ level \in Levels
          /\ cpc = "start" /\ upc = "off"
          /\ stream = << >>
       \/ /\ roundTrip = FALSE
          /\ data = << >> /\ nbytes = 0 /\ level = 1
          /\ cpc = "off" /\ upc = "start"
          /\ stream \in StreamsOf(MaxRecs)

CodecNext ==
    \/ CompressCall
    \/ CompressBlock
    \/ CompressBlockFails
    \/ CompressReturn
    \/ UncompressResult
    \/ UncompressCall
    \/ UncompressFormatError
    \/ UncompressBlock
    \/ UncompressReturn

CodecOff ==
    /\ CodecIdle
    /\ roundTrip = FALSE
    /\ data = << >> /\ nbytes = 0 /\ level = 1
    /\ cpc = "off" /\ upc = "off"
    /\ stream = << >>

\* the codec alone
CodecSpecInit == CodecInit /\ GenIdle /\ DetIdle /\ phase = "off"

SpecCodec == CodecSpecInit /\ [][CodecNext]_vars

\* the generators, called by the threads
Init == CodecOff /\ GenIdle /\ DetIdle /\ phase = "off"

Next ==
    \E th \in Threads :
        \/ CallSrandXor128(th) \/ CallRandXor128(th) \/ CallRand32_r(th)
        \/ CallRand64_r(th) \/ CallRandom(th) \/ CallRandomMax(th)
        \/ SrandLock(th) \/ SrandW(th) \/ SrandZ(th) \/ SrandUnlock(th)
        \/ RandLock(th) \/ RandT(th) \/ RandX(th) \/ RandY(th) \/ RandZ(th)
        \/ RandW(th) \/ RandReturn(th) \/ RandUnlock(th)
        \/ Rand32Lock(th) \/ Rand32Read(th) \/ Rand32Write(th)
        \/ Rand32Unlock(th)
        \/ Rand64Lock(th) \/ Rand64Read(th) \/ Rand64Write(th)
        \/ Rand64Unlock(th)
        \/ RandomMaxCall(th) \/ RandomDist(th) \/ RandomLock(th)
        \/ RandomRead(th) \/ RandomWrite(th) \/ RandomRedraw(th)
        \/ RandomScale(th) \/ RandomUnlock(th)

Spec == Init /\ [][Next]_vars

\* pre-emptible threads under a fair scheduler: a thread that can execute a
\* statement does, and a thread blocked in lock() gets the mutex if it is
\* free again and again
FairSpec ==
    /\ Spec
    /\ \A th \in Threads : WF_vars(Proceed(th)) /\ SF_vars(Acquire(th))

\* the two runs of the xorshift generator
DetInit == CodecOff /\ GenIdle /\ DetIdle /\ phase = "history"

DetNext ==
    \/ \E r \in Runs : HistorySrand(r) \/ HistoryRand(r)
    \/ CommonSeed
    \/ BothRand

SpecDet == DetInit /\ [][DetNext]_vars

-----------------------------------------------------------------------------
(* Properties of the codec, checked under SpecCodec *)

\* the blocks of d in input order: block i is d[(i-1)*LZ4_BLOCKSIZE+1 ..
\* i*LZ4_BLOCKSIZE], the last one ending with d
BlockCount(n) == (n + LZ4_BLOCKSIZE - 1) \div LZ4_BLOCKSIZE

BlockOf(d, i) ==
    SubSeq(d, (i - 1) * LZ4_BLOCKSIZE + 1, Min(i * LZ4_BLOCKSIZE, Len(d)))

RECURSIVE Framing(_)
Framing(d) ==
    IF d = << >> THEN << >>
    ELSE LET n == Min(Len(d), LZ4_BLOCKSIZE)
         IN  RecordOf(LZ4_compress_fast(SubSeq(d, 1, n), level))
               \o Framing(SubSeq(d, n + 1, Len(d)))

RECURSIVE FirstRecords(_, _)
FirstRecords(d, k) ==
    IF k = 0 THEN << >>
    ELSE FirstRecords(d, k - 1) \o RecordOf(LZ4_compress_fast(BlockOf(d, k), level))

BadPrefix(v) == v <= 0 \/ v > LZ4_compressBound(LZ4_BLOCKSIZE)

\* C1 (round trip): whenever lz4Compress(d, level) met no failing block, for
\* any d (empty, one byte, exactly LZ4_BLOCKSIZE, LZ4_BLOCKSIZE + 1, several
\* blocks) and any level, lz4Uncompress of its result returns d byte for byte.
C1_RoundTrip ==
    (roundTrip /\ upc = "done" /\ ~ cFailed) => uRet = data

C1_Witness ==
    /\ roundTrip /\ upc = "done" /\ ~ cFailed
    /\ Len(data) = 2 * LZ4_BLOCKSIZE + 1
    /\ Len(prefixes) = 3
    /\ uRet = data

\* C2 (truncation rejection), as claimed: lz4Uncompress returns a non-empty
\* result only when its read cursor readlen ends exactly equal to nbytes, so
\* a stream whose last record's declared payload extends past nbytes yields
\* the empty result.
C2_TruncationRejected ==
    (upc = "done" /\ uRet # << >>) => uReadlen = Len(stream)

\* C3 (format rejection): once lz4Uncompress has read a length prefix that
\* is 0, negative as a signed 32-bit value, or above
\* LZ4_compressBound(LZ4_BLOCKSIZE), it has stopped with the empty result,
\* whatever earlier records had produced, and in that call it has read no
\* byte of the input at an index >= nbytes.
C3_FormatRejection ==
    (\E i \in DOMAIN prefixes : BadPrefix(prefixes[i]))
        => (upc = "done" /\ uRet = << >> /\ ~ oob)

C3_Witness ==
    /\ upc = "done"
    /\ Len(prefixes) = 2
    /\ ~ BadPrefix(prefixes[1])
    /\ prefixes[2] < 0
    /\ uBuffer # << >>
    /\ uRet = << >>

\* C4 (no partial stream): when LZ4_compress_fast fails on a block, the
\* first or a later one, lz4Compress returns the empty stream; what
\* lz4Compress returns is always empty or the framing of every block.
C4_NoPartialStream ==
    cpc = "done" =>
        /\ cFailed => cRet = << >>
        /\ cRet = << >> \/ cRet = Framing(data)

C4_Witness ==
    /\ cpc = "done" /\ cFailed
    /\ Len(blocks) >= 1
    /\ cRet = << >>

\* C5 (block count): for an input of N > 0 bytes whose blocks all compress,
\* lz4Compress emits ceil(N / LZ4_BLOCKSIZE) records in input order; every
\* record but the last encodes LZ4_BLOCKSIZE bytes, the last one the
\* remaining N - LZ4_BLOCKSIZE * (count - 1) bytes, between 1 and
\* LZ4_BLOCKSIZE.
C5_BlockCount ==
    (cpc = "done" /\ ~ cFailed /\ nbytes > 0) =>
        LET count == BlockCount(nbytes)
        IN  /\ Len(blocks) = count
            /\ \A i \in 1 .. count - 1 : blocks[i] = LZ4_BLOCKSIZE
            /\ blocks[count] = nbytes - LZ4_BLOCKSIZE * (count - 1)
            /\ blocks[count] \in 1 .. LZ4_BLOCKSIZE
            /\ cRet = FirstRecords(data, count)

C5_Witness ==
    /\ cpc = "done" /\ ~ cFailed
    /\ nbytes = 2 * LZ4_BLOCKSIZE + 1
    /\ blocks = << LZ4_BLOCKSIZE, LZ4_BLOCKSIZE, 1 >>

-----------------------------------------------------------------------------
(* Properties of the generators *)

\* the locks thread th holds
Held(th) ==
    { m \in { "randMutex", "mtmtx", "mt64mtx" } :
        \/ m = "randMutex" /\ randMutex = th
        \/ m = "mtmtx" /\ mtmtx = th
        \/ m = "mt64mtx" /\ mt64mtx = th }

LockStatements == { "srand_lock", "rand_lock", "r32_lock", "r64_lock", "rnd_lock" }

\* no thread holds two locks, none holds a lock while it calls lock(), and
\* none holds a lock outside a call
LockDiscipline ==
    \A th \in Threads :
        /\ Cardinality(Held(th)) <= 1
        /\ pc[th] \in LockStatements \cup { "idle", "rnd_dist", "rndmax_call" }
              => Held(th) = { }

\* C8 (no deadlock, completion): a thread never holds one generator lock
\* while acquiring another or its own again, every call has released its
\* lock when it returns, and under fair scheduling every call of
\* srandXor128, randXor128, rand32_r, rand64_r, random(min, max) and
\* random(max) returns.
C8_CallsComplete ==
    /\ [] LockDiscipline
    /\ \A th \in Threads : (pc[th] # "idle") ~> (pc[th] = "idle")

\* a thread waits in lock() for a mutex another thread holds
C8_Witness ==
    \E th \in Threads, other \in Threads :
        /\ th # other
        /\ pc[th] = "rnd_lock"
        /\ mt64mtx = other
        /\ pc[other] = "r64_write"

\* the statements executed with randMutex, mtmtx, mt64mtx locked
XorCritical ==
    { "srand_w", "srand_z", "srand_unlock", "rand_t", "rand_x", "rand_y",
      "rand_z", "rand_w", "rand_ret", "rand_unlock" }

MtCritical == { "r32_read", "r32_write", "r32_unlock" }

Mt64Critical ==
    { "r64_read", "r64_write", "r64_unlock", "rnd_read", "rnd_write",
      "rnd_scale", "rnd_unlock" }

At(S) == { th \in Threads : pc[th] \in S }

\* at most one thread is inside the critical section of each group
MutualExclusion ==
    /\ Cardinality(At(XorCritical)) <= 1
    /\ Cardinality(At(MtCritical)) <= 1
    /\ Cardinality(At(Mt64Critical)) <= 1

\* the xorshift words move in whole calls, in the order of acquisition, and
\* randXor128 returns the w of its own call
XorWholeSteps ==
    /\ randMutex = Free => << x, y, z, w >> = << seq.x, seq.y, seq.z, seq.w >>
    /\ \A th \in Threads : pc[th] = "rand_unlock" => loc[th].ret = acq[th].due

\* the k-th call to acquire mtmtx returns the k-th value of mt and leaves mt
\* k steps on
MtWholeSteps ==
    /\ mtmtx = Free => mt = ranks.mt
    /\ \A th \in Threads :
          pc[th] = "r32_unlock" => loc[th].ret = acq[th].rank /\ mt = acq[th].rank

\* the same of mt64, for rand64_r and random alike
Mt64OneStepPerCall ==
    /\ mt64mtx = Free => mt64 = ranks.mt64
    /\ \A th \in Threads :
          /\ pc[th] = "r64_unlock"
                => loc[th].ret = acq[th].rank /\ mt64 = acq[th].rank
          /\ pc[th] = "rnd_unlock" => mt64 = acq[th].rank

\* mt64 moves by the draws the calls make: rand64_r makes one draw and
\* returns the value next to those drawn before it took the lock; random
\* makes one draw or more, all next to each other
Mt64WholeDraws ==
    /\ mt64mtx = Free => mt64 = used.mt64
    /\ \A th \in Threads :
          /\ pc[th] \in Mt64Critical => acq[th].from = used.mt64
          /\ pc[th] = "r64_unlock"
                => /\ loc[th].ret = acq[th].from + 1
                   /\ mt64 = acq[th].from + 1
          /\ pc[th] = "rnd_unlock"
                => /\ loc[th].draws >= 1
                   /\ mt64 = acq[th].from + loc[th].draws
                   /\ loc[th].ret \in UniformValues(arg[th].min, arg[th].max)

\* C7 (concurrent safety), as claimed: in every group, randXor128, rand32_r
\* and rand64_r/random, calls run one at a time, the generator moves one
\* whole step per call and the calls return the first values of the
\* sequential sequence, one each, in the order the lock was acquired.
C7_OneStepPerCall ==
    MutualExclusion /\ XorWholeSteps /\ MtWholeSteps /\ Mt64OneStepPerCall

\* C7, amended: calls of a group run one at a time with no other thread in
\* the group's critical section; randXor128 and rand32_r move their
\* generator one whole step per call and return the values of the
\* sequential sequence in the order of acquisition; on mt64, rand64_r draws
\* one value and random(min, max) one or more consecutive values, no value
\* being drawn twice or skipped.
C7_ConcurrentSafety ==
    MutualExclusion /\ XorWholeSteps /\ MtWholeSteps /\ Mt64WholeDraws

\* the second call on mt64 is a random that drew twice, while the other
\* thread waits in rand64_r
C7_Witness ==
    \E th \in Threads, other \in Threads :
        /\ th # other
        /\ pc[th] = "rnd_unlock"
        /\ acq[th].rank = 2
        /\ loc[th].draws = 2
        /\ pc[other] = "r64_lock"

\* C9 (bad range rejected), as claimed: a call random(min, max) with
\* min > max is rejected before mt64mtx is taken or mt64 advanced: the thread
\* making it never holds the lock and never draws.
C9_BadRangeRejected ==
    \A th \in Threads :
        (op[th] = "random" /\ arg[th].min > arg[th].max)
            => (mt64mtx # th /\ loc[th].draws = 0 /\ pc[th] # "rnd_unlock")

\* bit i of seed ^ (seed >> 8) ^ (seed << 5) at 32 bits
SeedBit(seed, i) ==
    LET a == i \in seed
        b == i + 8 <= 31 /\ (i + 8) \in seed
        c == i >= 5 /\ (i - 5) \in seed
    IN  (a # b) # c

SrandStatements == { "srand_lock", "srand_w", "srand_z", "srand_unlock" }

\* the state a call of srandXor128(seed) has made when it is about to unlock
SeedEffect ==
    \A th \in Threads :
        pc[th] = "srand_unlock" =>
            /\ w = arg[th].seed
            /\ \A i \in 0 .. 31 : (i \in z) <=> SeedBit(arg[th].seed, i)
            /\ x = snap.x /\ y = snap.y
            /\ randMutex = th

\* a step of srandXor128 by thread th
SrandStep(th) == pc[th] \in SrandStatements /\ pc'[th] # pc[th]

\* what the steps of srandXor128 leave alone, and where they write
SeedFrame ==
    \A th \in Threads :
        SrandStep(th) =>
            /\ x' = x /\ y' = y /\ mt' = mt /\ mt64' = mt64
            /\ (w' # w \/ z' # z) => (randMutex = th /\ randMutex' = th)

\* C10 (seeding effect and frame): srandXor128(seed) sets w to seed and z to
\* seed XOR (seed >> 8) XOR (seed << 5) in 32-bit unsigned arithmetic, the
\* left shift truncated modulo 2^32; it leaves x and y, mt and mt64
\* unchanged; it writes only while it holds randMutex.
C10_SeedingEffect == [] SeedEffect /\ [][SeedFrame]_vars

\* a call seeded with 0x88000208, whose << 5 loses bits, is about to unlock
\* after randXor128 had moved x and y
C10_Witness ==
    \E th \in Threads :
        /\ pc[th] = "srand_unlock"
        /\ arg[th].seed = {3, 9, 27, 31}
        /\ z = {1, 3, 8, 9, 14, 19, 23, 27, 31}
        /\ x # XorInit.x

-----------------------------------------------------------------------------
(* Properties of the two runs, checked under SpecDet *)

\* C6 (fast-generator determinism), as claimed: whatever calls of
\* srandXor128 and randXor128 came before, two runs that both call
\* srandXor128(s) get the same values from the randXor128 calls that follow.
C6_SameSeedSameSequence ==
    phase = "seeded" => outs[1] = outs[2]

\* C6, amended: two runs that both call srandXor128(s) get the same values
\* from the randXor128 calls that follow when the calls made before left
\* the words x and y equal in the two runs, as they do when neither run had
\* called randXor128 (srandXor128 sets w and z and keeps x and y).
C6_SameSeedSameXY ==
    /\ (phase = "seeded" /\ start[1].x = start[2].x /\ start[1].y = start[2].y)
          => outs[1] = outs[2]
    /\ (phase = "seeded"
          /\ \A r \in Runs : \A i \in DOMAIN hist[r] : hist[r][i][1] = "srandXor128")
          => outs[1] = outs[2]

\* runs with different histories, one of them seeded before, draw the same
\* three values
C6_Witness ==
    /\ phase = "seeded"
    /\ hist[1] = << >>
    /\ Len(hist[2]) = 2
    /\ hist[2][1][1] = "srandXor128"
    /\ hist[2][2][1] = "srandXor128"
    /\ Len(outs[1]) = 3
    /\ outs[1] = outs[2]

=============================================================================
